---- MODULE Spec2Model ----
(***************************************************************************)
(* Model of prereise/gather/winddata/rap/rap.py: retrieve_data and its     *)
(* helpers ll2uv, angular_distance and get_power.                          *)
(*                                                                         *)
(* Real numbers are exact fractions <<n, d>> (d > 0, lowest terms).        *)
(* Longitudes and latitudes are multiples of 90 degrees, for which the     *)
(* sines, cosines and arc cosines the code takes are exact integers.       *)
(* Dates are day ordinals; a time stamp is a number of hours.              *)
(***************************************************************************)
EXTENDS Integers, Sequences, FiniteSets, TLC

VARIABLES
    wind_farm,     \* input: sequence of sites [id, lon, lat, GenMWMax]
    start_date,    \* input: day ordinal of the first day
    end_date,      \* input: day ordinal of the last day (inclusive)
    source,        \* the NOAA server: [faulty: set of hours, steady: "up"|"down"]
    files,         \* request schedule (line 100)
    i,             \* loop index of the for loop (line 129), 0-based
    dt,            \* running time stamp (line 126), in hours
    data,          \* the result table (line 120), a sequence of rows
    missing,       \* list of missing files (line 118)
    target2grid,   \* site id -> grid index (line 119), 0-based indices
    request,       \* the response of requests.get for the current hour
    pc,            \* "loop" | "response" | "done" | "aborted"
    err,           \* the exception that ended the run, "" when none
    requests,      \* history: the files requested, in order
    responses,     \* history: the responses received, in order
    pauses,        \* history: number of requests issued before each sleep
    built,         \* history: loop indices at which target2grid was filled
    pace,          \* the loop's control alone, for runs of thousands of hours
    calc           \* one call of a helper alone: its arguments and its result

vars == <<wind_farm, start_date, end_date, source, files, i, dt, data, missing,
          target2grid, request, pc, err, requests, responses, pauses, built,
          pace, calc>>

(***************************************************************************)
(* Bounds of the model.                                                    *)
(***************************************************************************)
\* dates range over the days 0..MaxDay
MaxDay == 1
\* the server may answer anything during the first FaultWindow hours
FaultWindow == 3
\* the long runs of SpecRate last up to RateDays days
RateDays == 125
\* the wind speeds given to get_power alone are 0, 1/4, ..., MaxQuarters/4 m/s
MaxQuarters == 32
\* the grids given to the map build alone have 1 to MaxGrid points
MaxGrid == 3

(***************************************************************************)
(* Constants of the program.                                               *)
(***************************************************************************)
RangeStart == 10000
RangeStop == 12400
RangeStep == 100
CooldownEvery == 1000
StatusOK == 200

var_u == "u-component_of_wind_height_above_ground"
var_v == "v-component_of_wind_height_above_ground"
\* np.nan, kept apart from every fraction by its zero denominator
NaN == <<0, 0>>

(***************************************************************************)
(* Exact fractions.                                                        *)
(***************************************************************************)
Abs(x) == IF x < 0 THEN -x ELSE x

RECURSIVE GCD(_, _)
GCD(a, b) == IF b = 0 THEN a ELSE GCD(b, a % b)

Frac(n, d) ==
    LET g == GCD(Abs(n), Abs(d))
        s == IF d < 0 THEN -1 ELSE 1
    IN <<(s * n) \div g, (s * d) \div g>>

FInt(k) == <<k, 1>>
FAdd(a, b) == Frac(a[1] * b[2] + b[1] * a[2], a[2] * b[2])
FSub(a, b) == Frac(a[1] * b[2] - b[1] * a[2], a[2] * b[2])
FMul(a, b) == Frac(a[1] * b[1], a[2] * b[2])
FDiv(a, b) == Frac(a[1] * b[2], a[2] * b[1])
FLe(a, b) == a[1] * b[2] <= b[1] * a[2]
FLt(a, b) == a[1] * b[2] < b[1] * a[2]
Floor(a) == a[1] \div a[2]
Ceil(a) == -((-a[1]) \div a[2])
\* square root of a fraction that is the square of a fraction
FSqrt(a) ==
    LET m == a[1] * a[2]
        r == CHOOSE r \in 0..m : r * r = m
    IN Frac(r, a[2])

(***************************************************************************)
(* ll2uv and angular_distance (lines 18-53), on multiples of 90 degrees.   *)
(***************************************************************************)
CosDeg(deg) ==
    LET a == deg % 360
    IN IF a = 0 THEN 1 ELSE IF a = 180 THEN -1 ELSE 0

SinDeg(deg) ==
    LET a == deg % 360
    IN IF a = 90 THEN 1 ELSE IF a = 270 THEN -1 ELSE 0

\* math.degrees(math.acos(c)) for c in {-1, 0, 1}
AcosDeg(c) == IF c = 1 THEN 0 ELSE IF c = 0 THEN 90 ELSE 180

ll2uv(lon, lat) ==
    <<CosDeg(lat) * CosDeg(lon), CosDeg(lat) * SinDeg(lon), SinDeg(lat)>>

angular_distance(uv1, uv2) ==
    LET dot == uv1[1] * uv2[1] + uv1[2] * uv2[2] + uv1[3] * uv2[3]
        c1 == IF dot >= 1 THEN 1 ELSE dot
        cos_angle == IF c1 <= -1 THEN -1 ELSE c1
    IN AcosDeg(cos_angle)

\* variant: the 0-based position of the last minimum
argmin_Last(angle) ==
    (CHOOSE k \in 1..Len(angle) :
        /\ \A m \in 1..Len(angle) : angle[k] <= angle[m]
        /\ \A m \in (k + 1)..Len(angle) : angle[m] > angle[k]) - 1

\* np.argmin: the 0-based position of the first minimum
argmin(angle) ==
    (CHOOSE k \in 1..Len(angle) :
        /\ \A m \in 1..Len(angle) : angle[k] <= angle[m]
        /\ \A m \in 1..(k - 1) : angle[m] > angle[k]) - 1

(***************************************************************************)
(* The power curves (lines 14-15) and get_power (lines 56-70).             *)
(* A table is a sequence of rows; the row at position p has the pandas     *)
(* index label p - 1.                                                      *)
(***************************************************************************)
SpeedBin == "Speed bin (m/s)"
IECClass2 == "IEC class 2"

CurveRow(bin, p2) == [c \in {SpeedBin, IECClass2} |-> IF c = SpeedBin THEN bin ELSE p2]

PowerCurves ==
    << CurveRow(0, FInt(0)),    CurveRow(1, FInt(0)),
       CurveRow(2, Frac(1, 10)), CurveRow(3, Frac(3, 10)),
       CurveRow(4, Frac(7, 10)), CurveRow(5, FInt(1)) >>

\* np.interp(x, xp, fp) with xp increasing and non-empty
interp(x, xp, fp) ==
    LET m == Len(xp)
    IN IF FLe(x, FInt(xp[1])) THEN fp[1]
       ELSE IF FLe(FInt(xp[m]), x) THEN fp[m]
       ELSE LET j == CHOOSE j \in 1..(m - 1) :
                        FLe(FInt(xp[j]), x) /\ FLt(x, FInt(xp[j + 1]))
                slope == FDiv(FSub(fp[j + 1], fp[j]), FInt(xp[j + 1] - xp[j]))
            IN FAdd(FMul(slope, FSub(x, FInt(xp[j]))), fp[j])

\* the positions of a table selected by a set, in increasing order
RECURSIVE Selected(_, _)
Selected(n, keep) ==
    IF n = 0 THEN <<>>
    ELSE IF n \in keep THEN Append(Selected(n - 1, keep), n)
    ELSE Selected(n - 1, keep)

\* variant: no test of match.any(), the whole column is interpolated
get_power_on_NoGuard(table, wspd, turbine) ==
    interp(wspd,
           [k \in 1..Len(table) |-> k - 1],
           [k \in 1..Len(table) |-> table[k][turbine]])

get_power_on(table, wspd, turbine) ==
    LET match == {p \in 1..Len(table) :
                     /\ table[p][SpeedBin] <= Ceil(wspd)
                     /\ table[p][SpeedBin] >= Floor(wspd)}
        rows == Selected(Len(table), match)
    IN IF match = {} THEN FInt(0)
       ELSE interp(wspd,
                   [k \in 1..Len(rows) |-> rows[k] - 1],
                   [k \in 1..Len(rows) |-> table[rows[k]][turbine]])

get_power(wspd, turbine) == get_power_on(PowerCurves, wspd, turbine)

(***************************************************************************)
(* Inputs: wind farms, and what the server can send.                       *)
(***************************************************************************)
Site(id, lon, lat, cap) == [id |-> id, lon |-> lon, lat |-> lat, GenMWMax |-> cap]

SiteA == Site(3, 0, 0, 100)
SiteB == Site(1, 90, 0, 50)

WindFarms == { <<>>, <<SiteA>>, <<SiteA, SiteB>>, <<SiteB, SiteA>> }

Dataset(lon, lat, u, v) ==
    [name \in {"lon", "lat", var_u, var_v} |->
        IF name = "lon" THEN lon ELSE IF name = "lat" THEN lat
        ELSE IF name = var_u THEN u ELSE v]

\* grid points (0,0) and (90,0); speeds 5/2 and 5
Snapshot0 ==
    Dataset(<<0, 90>>, <<0, 0>>, <<Frac(3, 2), FInt(-3)>>, <<FInt(2), FInt(4)>>)

\* the same grid points in the other order; speeds 7/2 and 3
Snapshot1 ==
    Dataset(<<90, 0>>, <<0, 0>>, <<FInt(0), FInt(3)>>, <<Frac(7, 2), FInt(0)>>)

\* a file that lacks one of the variables the code reads
Without(ds, name) == [n \in (DOMAIN ds) \ {name} |-> ds[n]]

Snapshots == {Snapshot0, Snapshot1}
Malformed == {Without(Snapshot0, var_v), Without(Snapshot0, "lon")}

Response(code, content) == [status_code |-> code, content |-> content]
NoContent == [n \in {} |-> <<>>]
\* any status other than 200; 404 stands for them
Unavailable == Response(404, NoContent)
\* the value of request before the first requests.get
NoRequest == Response(0, NoContent)

AnyResponse ==
    {Response(StatusOK, ds) : ds \in Snapshots \cup Malformed} \cup {Unavailable}

\* what the server may answer to the request of loop index k
Answers(src, k) ==
    IF k \in src.faulty THEN AnyResponse
    ELSE IF src.steady = "up" THEN {Response(StatusOK, Snapshot0)}
    ELSE {Unavailable}

(***************************************************************************)
(* retrieve_data: the request schedule (lines 96-106).                     *)
(***************************************************************************)
\* A date is counted in days from Epoch, the date of day 0.
Epoch == [year |-> 2016, month |-> 2, day |-> 28]

IsLeap(y) == y % 4 = 0 /\ (y % 100 # 0 \/ y % 400 = 0)
MonthLen(y, m) ==
    << 31, IF IsLeap(y) THEN 29 ELSE 28, 31, 30, 31, 30, 31, 31, 30, 31, 30, 31 >>[m]

\* the calendar date that is day d, possibly past its end, of month m of year y
RECURSIVE Calendar(_, _, _)
Calendar(y, m, d) ==
    IF d <= MonthLen(y, m) THEN [year |-> y, month |-> m, day |-> d]
    ELSE IF m = 12 THEN Calendar(y + 1, 1, d - MonthLen(y, m))
    ELSE Calendar(y, m + 1, d - MonthLen(y, m))

\* start.strftime('%Y%m%d') (line 102), the digits read as a number
strftime(date) ==
    LET c == Calendar(Epoch.year, Epoch.month, Epoch.day + date)
    IN c.year * 10000 + c.month * 100 + c.day

\* variant: the hours start at 0100
HourFiles_SkipsMidnight(day) ==
    [k \in 1..((RangeStop - RangeStart - 1) \div RangeStep) |->
        [ymd |-> strftime(day), hhmm |-> (RangeStart + k * RangeStep) % RangeStart]]

\* for h in range(10000, 12400, 100): str(h)[1:] is h without its leading 1
HourFiles(day) ==
    [k \in 1..((RangeStop - RangeStart + RangeStep - 1) \div RangeStep) |->
        [ymd |-> strftime(day), hhmm |-> (RangeStart + (k - 1) * RangeStep) % RangeStart]]

\* the passes of the while loop of line 101
DaysInRange(start, end) == IF start <= end THEN end - start + 1 ELSE 0

\* variant: the loop runs one day too far
BuildFiles_OneDayMore(start, end) ==
    LET per == Len(HourFiles(start))
    IN [k \in 1..((DaysInRange(start, end) + 1) * per) |->
           HourFiles(start + (k - 1) \div per)[((k - 1) % per) + 1]]

\* lines 100-106: the files of each day from start to end, day after day
BuildFiles(start, end) ==
    LET per == Len(HourFiles(start))
    IN [k \in 1..(DaysInRange(start, end) * per) |->
           HourFiles(start + (k - 1) \div per)[((k - 1) % per) + 1]]

\* variant: the clock starts at 01:00 of the first day
DateTime_OneHourOn(date) == date * 24 + 1

\* datetime.strptime(start_date) counted in hours
DateTime(date) == date * 24

(***************************************************************************)
(* retrieve_data: one pass of the loop body after requests.get             *)
(* (lines 135-179), as a function of the run's state                       *)
(*   st = [i, dt, data, missing, target2grid, pc, err, built].             *)
(***************************************************************************)
id_target(wf) == [j \in 1..Len(wf) |-> wf[j].id]

\* variant: the test forgets i != 0
CooldownDue_AlsoAtZero(k) == k % CooldownEvery = 0

\* line 130
CooldownDue(k) == k # 0 /\ k % CooldownEvery = 0

\* lines 135-137
DataTmp(wf, st) ==
    [j \in 1..Len(wf) |-> [plantID |-> wf[j].id, ts |-> st.dt, tsID |-> st.i + 1]]

\* lines 152-157: a later site with the same id overwrites an earlier one
BuildTarget2Grid(wf, lon_grid, lat_grid) ==
    [id \in {wf[j].id : j \in 1..Len(wf)} |->
        LET j == CHOOSE j \in 1..Len(wf) :
                    wf[j].id = id /\ \A m \in (j + 1)..Len(wf) : wf[m].id # id
            uv_target == ll2uv(wf[j].lon, wf[j].lat)
            angle == [k \in 1..Len(lon_grid) |->
                        angular_distance(uv_target, ll2uv(lon_grid[k], lat_grid[k]))]
        IN argmin(angle)]

\* variant: the map is built again at every successful fetch
MapIsDue_Always(st) == TRUE

\* line 149
MapIsDue(st) == st.data = <<>>

\* variant: every site's power is scaled by the capacity of the first site
FilledRows_FirstCapacity(wf, st, t2g, u_wsp, v_wsp) ==
    [j \in 1..Len(wf) |->
        LET U == u_wsp[t2g[wf[j].id] + 1]
            V == v_wsp[t2g[wf[j].id] + 1]
            wspd == FSqrt(FAdd(FMul(U, U), FMul(V, V)))
        IN [plantID |-> wf[j].id, ts |-> st.dt, tsID |-> st.i + 1,
            U |-> U, V |-> V,
            Pout |-> FMul(get_power(wspd, IECClass2), FInt(wf[1].GenMWMax))]]

\* lines 159-166
FilledRows(wf, st, t2g, u_wsp, v_wsp) ==
    [j \in 1..Len(wf) |->
        LET U == u_wsp[t2g[wf[j].id] + 1]
            V == v_wsp[t2g[wf[j].id] + 1]
            wspd == FSqrt(FAdd(FMul(U, U), FMul(V, V)))
        IN [plantID |-> wf[j].id, ts |-> st.dt, tsID |-> st.i + 1,
            U |-> U, V |-> V,
            Pout |-> FMul(get_power(wspd, IECClass2), FInt(wf[j].GenMWMax))]]

\* variant: no placeholder rows for a missing hour
NanRows_None(wf, st) == <<>>

\* variant: one placeholder row per missing hour, whatever the number of sites
NanRows_OneRow(wf, st) ==
    <<[plantID |-> 0, ts |-> st.dt, tsID |-> st.i + 1,
       U |-> NaN, V |-> NaN, Pout |-> NaN]>>

\* lines 173-176
NanRows(wf, st) ==
    [j \in 1..Len(wf) |->
        [plantID |-> wf[j].id, ts |-> st.dt, tsID |-> st.i + 1,
         U |-> NaN, V |-> NaN, Pout |-> NaN]]

\* variant: the list is overwritten instead of extended
MissingAppend_Overwrite(miss, file) == <<file>>

\* line 171
MissingAppend(miss, file) == Append(miss, file)

\* variant: the rows of the hour are put in front of the table
Advance_Prepend(st, rows) ==
    [st EXCEPT !.data = rows \o st.data, !.dt = st.dt + 1, !.i = st.i + 1,
               !.pc = "loop"]

\* lines 178-179 and the step of the for loop
Advance(st, rows) ==
    [st EXCEPT !.data = st.data \o rows, !.dt = st.dt + 1, !.i = st.i + 1,
               !.pc = "loop"]

\* variant: the exception is caught and the hour skipped
Raise_Swallowed(st, exc) ==
    [st EXCEPT !.dt = st.dt + 1, !.i = st.i + 1, !.pc = "loop"]

\* an exception no handler catches leaves retrieve_data
Raise(st, exc) == [st EXCEPT !.pc = "aborted", !.err = exc]

\* lines 139-169
OnSuccess(wf, st, tmp) ==
    IF ~({"lon", "lat", var_u, var_v} \subseteq DOMAIN tmp)
    THEN Raise(st, "KeyError: variables")
    ELSE
      LET due == MapIsDue(st)
          t2g == IF due THEN BuildTarget2Grid(wf, tmp["lon"], tmp["lat"])
                 ELSE st.target2grid
          st1 == [st EXCEPT !.target2grid = t2g,
                            !.built = IF due THEN Append(st.built, st.i)
                                      ELSE st.built]
      IN IF \E j \in 1..Len(wf) : wf[j].id \notin DOMAIN t2g
         THEN Raise(st1, "KeyError: target2grid")
         ELSE IF \E j \in 1..Len(wf) : t2g[wf[j].id] + 1 > Len(tmp[var_u])
         THEN Raise(st1, "IndexError: u_wsp")
         ELSE Advance(st1, FilledRows(wf, st1, t2g, tmp[var_u], tmp[var_v]))

\* lines 170-176
OnFailure(wf, st, file) ==
    Advance([st EXCEPT !.missing = MissingAppend(st.missing, file)],
            NanRows(wf, st))

LoopBody(wf, st, file, resp) ==
    IF resp.status_code = StatusOK THEN OnSuccess(wf, st, resp.content)
    ELSE OnFailure(wf, st, file)

(***************************************************************************)
(* retrieve_data: the end of the run (lines 181-188).                      *)
(***************************************************************************)
\* astype(np.int32): the model's integers are the 32-bit integers, which the
\* conversion leaves as they are
ToInt32(x) == x

RowBefore(a, b) ==
    \/ a.tsID < b.tsID
    \/ a.tsID = b.tsID /\ a.plantID < b.plantID

\* variant: the table is left in the order of its making
SortValues_Unsorted(rows) == rows

\* sort_values(by=['tsID', 'plantID'])
SortValues(rows) == SortSeq(rows, RowBefore)

Finalize(rows) ==
    SortValues([r \in 1..Len(rows) |->
                  [rows[r] EXCEPT !.plantID = ToInt32(rows[r].plantID),
                                  !.tsID = ToInt32(rows[r].tsID)]])

(***************************************************************************)
(* The run as a state machine.                                             *)
(***************************************************************************)
Cur == [i |-> i, dt |-> dt, data |-> data, missing |-> missing,
        target2grid |-> target2grid, pc |-> pc, err |-> err, built |-> built]

EmptyMap == [id \in {} |-> 0]

\* the run's state at line 127
Begin(sd) ==
    [i |-> 0, dt |-> DateTime(sd), data |-> <<>>, missing |-> <<>>,
     target2grid |-> EmptyMap, pc |-> "loop", err |-> "", built |-> <<>>]

\* pace when the whole run is modelled
NoPace == [total |-> 0, i |-> 0, issued |-> 0, pauses |-> <<>>, pc |-> "off"]

\* calc when no helper is looked at alone
NoCalc == [fn |-> "none", pc |-> "off"]

\* the state after lines 85-127
Start(wf, sd, ed, src) ==
    /\ wind_farm = wf
    /\ start_date = sd
    /\ end_date = ed
    /\ source = src
    /\ files = BuildFiles(sd, ed)
    /\ i = Begin(sd).i
    /\ dt = Begin(sd).dt
    /\ data = Begin(sd).data
    /\ missing = Begin(sd).missing
    /\ target2grid = Begin(sd).target2grid
    /\ request = NoRequest
    /\ pc = Begin(sd).pc
    /\ err = Begin(sd).err
    /\ requests = <<>>
    /\ responses = <<>>
    /\ pauses = <<>>
    /\ built = Begin(sd).built

Init ==
    /\ \E wf \in WindFarms, sd \in 0..MaxDay, ed \in 0..MaxDay,
          steady \in {"up", "down"} :
           Start(wf, sd, ed, [faulty |-> 0..(FaultWindow - 1), steady |-> steady])
    /\ pace = NoPace
    /\ calc = NoCalc

\* lines 129-133: the sleep when it is due, then requests.get
Request ==
    /\ pc = "loop"
    /\ i < Len(files)
    /\ \E resp \in Answers(source, i) :
        /\ request' = resp
        /\ responses' = Append(responses, resp)
    /\ pauses' = IF CooldownDue(i) THEN Append(pauses, Len(requests)) ELSE pauses
    /\ requests' = Append(requests, files[i + 1])
    /\ pc' = "response"
    /\ UNCHANGED <<wind_farm, start_date, end_date, source, files, i, dt, data,
                   missing, target2grid, err, built, pace, calc>>

\* lines 135-179
Handle ==
    /\ pc = "response"
    /\ LET st == LoopBody(wind_farm, Cur, files[i + 1], request)
       IN /\ i' = st.i
          /\ dt' = st.dt
          /\ data' = st.data
          /\ missing' = st.missing
          /\ target2grid' = st.target2grid
          /\ pc' = st.pc
          /\ err' = st.err
          /\ built' = st.built
    /\ UNCHANGED <<wind_farm, start_date, end_date, source, files, request,
                   requests, responses, pauses, pace, calc>>

\* lines 181-188
Return ==
    /\ pc = "loop"
    /\ i = Len(files)
    /\ data' = Finalize(data)
    /\ pc' = "done"
    /\ UNCHANGED <<wind_farm, start_date, end_date, source, files, i, dt, missing,
                   target2grid, request, err, requests, responses, pauses, built,
                   pace, calc>>

Next == Request \/ Handle \/ Return

Spec == Init /\ [][Next]_vars

(***************************************************************************)
(* The control of the loop alone (lines 129-133 and the loop's exits),     *)
(* for schedules of thousands of hours: pace = [total, i, issued, pauses,  *)
(* pc] follows len(files), the loop index, the number of requests issued   *)
(* and the sleeps; the table, the files and the responses are left out,    *)
(* and of the loop body only whether it goes on or raises.                 *)
(***************************************************************************)
InitRate ==
    /\ Start(<<>>, 1, 0, [faulty |-> {}, steady |-> "up"])
    /\ \E days \in 0..RateDays :
          pace = [total |-> Len(BuildFiles(1, days)), i |-> 0, issued |-> 0,
                  pauses |-> <<>>, pc |-> "loop"]
    /\ calc = NoCalc

\* lines 129-133: the sleep when it is due, then requests.get
PaceRequest ==
    /\ pace.pc = "loop"
    /\ pace.i < pace.total
    /\ pace' = [pace EXCEPT
                  !.pauses = IF CooldownDue(pace.i) THEN Append(@, pace.issued)
                             ELSE @,
                  !.issued = @ + 1,
                  !.pc = "response"]
    /\ UNCHANGED <<wind_farm, start_date, end_date, source, files, i, dt, data,
                   missing, target2grid, request, pc, err, requests, responses,
                   pauses, built, calc>>

\* lines 135-179: the body ends the pass (the fetch having succeeded or
\* failed) or raises
PaceHandle ==
    /\ pace.pc = "response"
    /\ \E raised \in BOOLEAN :
          pace' = IF raised THEN [pace EXCEPT !.pc = "aborted"]
                  ELSE [pace EXCEPT !.i = @ + 1, !.pc = "loop"]
    /\ UNCHANGED <<wind_farm, start_date, end_date, source, files, i, dt, data,
                   missing, target2grid, request, pc, err, requests, responses,
                   pauses, built, calc>>

\* the loop is exhausted
PaceReturn ==
    /\ pace.pc = "loop"
    /\ pace.i = pace.total
    /\ pace' = [pace EXCEPT !.pc = "done"]
    /\ UNCHANGED <<wind_farm, start_date, end_date, source, files, i, dt, data,
                   missing, target2grid, request, pc, err, requests, responses,
                   pauses, built, calc>>

NextRate == PaceRequest \/ PaceHandle \/ PaceReturn

SpecRate == InitRate /\ [][NextRate]_vars

(***************************************************************************)
(* The whole run on given responses, for comparing two runs                *)
(* (lines 129-188).                                                        *)
(***************************************************************************)
RECURSIVE RunFrom(_, _, _, _)
RunFrom(wf, fs, st, resps) ==
    IF st.pc # "loop" \/ resps = <<>> THEN st
    ELSE RunFrom(wf, fs, LoopBody(wf, st, fs[st.i + 1], Head(resps)), Tail(resps))

Rerun(wf, sd, fs, resps) ==
    LET st == RunFrom(wf, fs, Begin(sd), resps)
    IN IF st.pc = "loop" /\ st.i = Len(fs)
       THEN [st EXCEPT !.data = Finalize(st.data), !.pc = "done"]
       ELSE st

(***************************************************************************)
(* Vocabulary of the properties.                                           *)
(***************************************************************************)
NSites == Len(wind_farm)
ValidRange == start_date <= end_date
\* number of responses the loop body has dealt with
Handled == IF pc = "response" THEN Len(responses) - 1 ELSE Len(responses)
Failed(resp) == resp.status_code # StatusOK
WellFormed(resp) ==
    /\ resp.status_code = StatusOK
    /\ {"lon", "lat", var_u, var_v} \subseteq DOMAIN resp.content
Lacking(resp) == resp.status_code = StatusOK /\ ~WellFormed(resp)
FailedHours == {k \in 1..Len(responses) : Failed(responses[k])}
IsNanRow(r) == r.U = NaN /\ r.V = NaN /\ r.Pout = NaN
RowsAt(rows, k) == SelectSeq(rows, LAMBDA r : r.tsID = k)
NanCount == Cardinality({r \in 1..Len(data) : IsNanRow(data[r])})

(***************************************************************************)
(* C1: for a non-empty site set, a valid date range and responses that     *)
(* are each a success or a failure, the run never aborts in the loop.      *)
(***************************************************************************)
C1_NeverAborts ==
    (/\ NSites > 0
     /\ ValidRange
     /\ \A k \in 1..Len(responses) : Failed(responses[k]) \/ WellFormed(responses[k]))
    => pc # "aborted"

(***************************************************************************)
(* C2: once the first successful fetch, at whatever position, has been     *)
(* dealt with, the map was built at that fetch and only there, it has an   *)
(* entry for every site, and no read through it found an entry missing.    *)
(***************************************************************************)
C2_MapBuiltAtFirstSuccess ==
    \A k \in 1..Handled :
        (/\ NSites > 0
         /\ WellFormed(responses[k])
         /\ \A m \in 1..(k - 1) : Failed(responses[m]))
        => /\ built = <<k - 1>>
           /\ \A j \in 1..NSites : wind_farm[j].id \in DOMAIN target2grid
           /\ err # "KeyError: target2grid"

(***************************************************************************)
(* C3: the returned table has |sites| x |schedule| rows, exactly one for   *)
(* each pair of a site and a scheduled hour.                               *)
(***************************************************************************)
C3_OneRowPerSiteAndHour ==
    pc = "done" =>
        /\ Len(data) = NSites * Len(files)
        /\ \A j \in 1..NSites, k \in 1..Len(files) :
              Cardinality({r \in 1..Len(data) :
                  data[r].plantID = wind_farm[j].id /\ data[r].tsID = k}) = 1

C3_Witness ==
    /\ pc = "done"
    /\ NSites = 2
    /\ Len(files) > 0
    /\ Cardinality(FailedHours) >= 2
    /\ \E r \in 1..Len(data) : ~IsNanRow(data[r])

(***************************************************************************)
(* C4: when the fetch for hour h failed, the returned table has the        *)
(* missing sentinel in every row of hour h, the key of h is in the missing *)
(* list, and the run that differs only in that the fetch for h succeeded   *)
(* returns the same rows for every other hour.                             *)
(***************************************************************************)
C4_FailedHourIsolated ==
    pc = "done" =>
        \A h \in FailedHours :
            /\ \A r \in 1..Len(data) : data[r].tsID = h => IsNanRow(data[r])
            /\ \E m \in 1..Len(missing) : missing[m] = files[h]
            /\ \A ds \in Snapshots :
                LET other == Rerun(wind_farm, start_date, files,
                                   [responses EXCEPT ![h] = Response(StatusOK, ds)])
                IN /\ other.pc = "done"
                   /\ \A k \in (1..Len(files)) \ {h} :
                         RowsAt(other.data, k) = RowsAt(data, k)

(***************************************************************************)
(* C5: the returned missing list is the keys of the failed fetches, each   *)
(* once, in schedule order, and the table has |sites| rows with the        *)
(* missing sentinel for each of them.                                      *)
(***************************************************************************)
C5_MissingIsTheFailedFetches ==
    pc = "done" =>
        LET failed == Selected(Len(responses), FailedHours)
        IN /\ missing = [m \in 1..Len(failed) |-> files[failed[m]]]
           /\ \A a, b \in 1..Len(missing) : a # b => missing[a] # missing[b]
           /\ Len(missing) = Cardinality(FailedHours)
           /\ NanCount = Cardinality(FailedHours) * NSites

\* one day of which only the second hour fails, two sites
C5_Witness ==
    /\ pc = "done"
    /\ NSites = 2
    /\ FailedHours = {2}
    /\ Len(missing) = 1
    /\ Len(data) = Len(files) * 2
    /\ NanCount = 2

(***************************************************************************)
(* C6: the returned table is in strictly ascending order of                *)
(* (timestamp index, site id): sorted, and no pair occurs twice.           *)
(***************************************************************************)
C6_SortedNoDuplicates ==
    pc = "done" =>
        \A r \in 1..(Len(data) - 1) :
            \/ data[r].tsID < data[r + 1].tsID
            \/ /\ data[r].tsID = data[r + 1].tsID
               /\ data[r].plantID < data[r + 1].plantID

\* the sites were given in descending order of id, and an hour failed
C6_Witness ==
    /\ pc = "done"
    /\ wind_farm = <<SiteA, SiteB>>
    /\ Len(data) > 2
    /\ FailedHours # {}
    /\ \E r \in 1..Len(data) : ~IsNanRow(data[r])

(***************************************************************************)
(* C7: the pauses of a run are exactly one after every 1000th request      *)
(* that a further request follows: when n requests have been issued,       *)
(* (n - 1) \div 1000 pauses have happened, the k-th of them between        *)
(* request 1000k and request 1000k + 1, failed requests counting like      *)
(* the others.                                                             *)
(***************************************************************************)
C7_PauseAfterEvery1000th ==
    LET n == pace.issued
        due == IF n = 0 THEN 0 ELSE (n - 1) \div CooldownEvery
    IN pace.pauses = [k \in 1..due |-> k * CooldownEvery]

\* a returned run of exactly 3000 requests: two pauses, none after the last
C7_Witness ==
    /\ pace.pc = "done"
    /\ pace.issued = 3 * CooldownEvery
    /\ pace.pauses = <<CooldownEvery, 2 * CooldownEvery>>

(***************************************************************************)
(* C8, as claimed: called with an end date before the start date, the run  *)
(* ends in an error and returns no table.                                  *)
(***************************************************************************)
C8_InvalidRangeIsFatal ==
    end_date < start_date => pc # "done" /\ requests = <<>>

(***************************************************************************)
(* C8, amended: called with an end date before the start date, the run     *)
(* has an empty schedule, issues no request, raises no error, and returns  *)
(* an empty table and an empty missing list.                               *)
(***************************************************************************)
C8_InvalidRangeReturnsEmpty ==
    end_date < start_date =>
        /\ files = <<>>
        /\ requests = <<>>
        /\ pc \in {"loop", "done"}
        /\ err = ""
        /\ data = <<>>
        /\ missing = <<>>

C8_Witness ==
    /\ end_date < start_date
    /\ NSites > 0
    /\ pc = "done"

(***************************************************************************)
(* C9, as claimed: called with an empty site set and a valid date range,   *)
(* the run issues no request.                                              *)
(***************************************************************************)
C9_EmptySitesIssueNoRequest ==
    (NSites = 0 /\ ValidRange) => requests = <<>>

(***************************************************************************)
(* C9, amended: called with an empty site set and a valid date range, the  *)
(* run raises no error of its own: it issues the scheduled requests, never *)
(* adds a row to the table, stops early only on a snapshot that lacks a    *)
(* variable, and otherwise returns an empty table after issuing every      *)
(* scheduled request.                                                      *)
(***************************************************************************)
C9_EmptySitesRunToTheEnd ==
    (NSites = 0 /\ ValidRange) =>
        /\ data = <<>>
        /\ pc = "aborted" =>
              /\ err = "KeyError: variables"
              /\ Lacking(responses[Len(responses)])
        /\ pc = "done" => requests = files /\ files # <<>>

C9_Witness ==
    /\ NSites = 0
    /\ ValidRange
    /\ pc = "done"
    /\ FailedHours # {}
    /\ \E k \in 1..Len(responses) : WellFormed(responses[k])

(***************************************************************************)
(* C10, as claimed: an hour whose fetch reports success but whose snapshot *)
(* lacks a variable is handled like a failed fetch: its key is in the      *)
(* missing list, every site has a sentinel row for it, and the run goes on.*)
(***************************************************************************)
C10_LackingHandledAsFailure ==
    \A k \in 1..Handled :
        Lacking(responses[k]) =>
            /\ pc # "aborted"
            /\ \E m \in 1..Len(missing) : missing[m] = files[k]
            /\ \A j \in 1..NSites : \E r \in 1..Len(data) :
                  /\ data[r].plantID = wind_farm[j].id
                  /\ data[r].tsID = k
                  /\ IsNanRow(data[r])

(***************************************************************************)
(* C10, amended: an hour whose fetch reports success but whose snapshot    *)
(* lacks a variable ends the run there with an error: its key is not in    *)
(* the missing list, no row is added for it, no further request is issued  *)
(* and no table is returned.                                               *)
(***************************************************************************)
C10_LackingAbortsTheRun ==
    \A k \in 1..Handled :
        Lacking(responses[k]) =>
            /\ pc = "aborted"
            /\ err = "KeyError: variables"
            /\ k = Len(responses)
            /\ Len(requests) = k
            /\ i = k - 1
            /\ \A m \in 1..Len(missing) : missing[m] # files[k]
            /\ \A r \in 1..Len(data) : data[r].tsID # k

\* the snapshot of the third hour lacks a variable, after a success and a failure
C10_Witness ==
    /\ pc = "aborted"
    /\ NSites = 2
    /\ Len(responses) = 3
    /\ Lacking(responses[3])
    /\ WellFormed(responses[1])
    /\ Failed(responses[2])

(***************************************************************************)
(* get_power alone (lines 56-70): one call on a table and a wind speed.    *)
(***************************************************************************)
\* the bins 5 and 6 in the rows labelled 0 and 1
Curve56 == << CurveRow(5, Frac(1, 10)), CurveRow(6, Frac(3, 10)) >>
\* the bins 3..6 in the rows labelled 0..3
Curve3to6 ==
    << CurveRow(3, FInt(0)), CurveRow(4, Frac(2, 10)),
       CurveRow(5, Frac(6, 10)), CurveRow(6, FInt(1)) >>
\* the bins 2..4 in rows that are not in the order of the bins
CurveShuffled ==
    << CurveRow(4, Frac(9, 10)), CurveRow(2, Frac(1, 10)), CurveRow(3, Frac(1, 2)) >>

CurveTables == {PowerCurves, Curve56, Curve3to6, CurveShuffled}

InitPower ==
    /\ Start(<<>>, 1, 0, [faulty |-> {}, steady |-> "up"])
    /\ pace = NoPace
    /\ \E table \in CurveTables, n \in 0..MaxQuarters :
          calc = [fn |-> "get_power", table |-> table, wspd |-> Frac(n, 4),
                  turbine |-> IECClass2, result |-> NaN, pc |-> "call"]

PowerCall ==
    /\ calc.pc = "call"
    /\ calc.fn = "get_power"
    /\ calc' = [calc EXCEPT
                  !.result = get_power_on(calc.table, calc.wspd, calc.turbine),
                  !.pc = "returned"]
    /\ UNCHANGED <<wind_farm, start_date, end_date, source, files, i, dt, data,
                   missing, target2grid, request, pc, err, requests, responses,
                   pauses, built, pace>>

SpecPower == InitPower /\ [][PowerCall]_vars

\* the speed bins of a table, and the value a table stores for a bin
Bins(table) == {table[p][SpeedBin] : p \in 1..Len(table)}
LowestBin(table) == CHOOSE b \in Bins(table) : \A c \in Bins(table) : b <= c
HighestBin(table) == CHOOSE b \in Bins(table) : \A c \in Bins(table) : c <= b
ValueAt(table, bin, turbine) ==
    table[CHOOSE p \in 1..Len(table) : table[p][SpeedBin] = bin][turbine]
PowerReturned == calc.fn = "get_power" /\ calc.pc = "returned"

(***************************************************************************)
(* C11, as claimed: get_power returns 0 for every wind speed below the     *)
(* lowest bin of the table and for every wind speed above the highest.     *)
(***************************************************************************)
C11_ZeroOutsideTheBins ==
    (/\ PowerReturned
     /\ (\/ FLt(calc.wspd, FInt(LowestBin(calc.table)))
         \/ FLt(FInt(HighestBin(calc.table)), calc.wspd)))
    => calc.result = FInt(0)

(***************************************************************************)
(* C11, amended: get_power returns 0 for every wind speed a whole bin or   *)
(* more outside the table (ceil(speed) below the lowest bin, or            *)
(* floor(speed) above the highest); for a speed less than one bin width    *)
(* below the lowest bin or above the highest it returns the value stored   *)
(* for that bin.                                                           *)
(***************************************************************************)
C11_ZeroAWholeBinOutside ==
    PowerReturned =>
        LET lo == LowestBin(calc.table)
            hi == HighestBin(calc.table)
            w == calc.wspd
        IN /\ (Ceil(w) < lo \/ Floor(w) > hi) => calc.result = FInt(0)
           /\ (FLt(w, FInt(lo)) /\ Ceil(w) = lo)
                 => calc.result = ValueAt(calc.table, lo, calc.turbine)
           /\ (FLt(FInt(hi), w) /\ Floor(w) = hi)
                 => calc.result = ValueAt(calc.table, hi, calc.turbine)

\* a speed two bins above the table has given 0
C11_Witness ==
    /\ PowerReturned
    /\ calc.table = Curve56
    /\ calc.wspd = Frac(31, 4)
    /\ calc.result = FInt(0)

(***************************************************************************)
(* C12: for a wind speed between the adjacent bins lo = floor(speed) and   *)
(* hi = ceil(speed) of the table, get_power returns the interpolation by   *)
(* wind speed of the values stored for lo and hi, and at a bin the value   *)
(* stored for it, whatever rows the bins are in.                           *)
(***************************************************************************)
C12_InterpolatesBySpeed ==
    PowerReturned =>
        LET lo == Floor(calc.wspd)
            hi == Ceil(calc.wspd)
            vlo == ValueAt(calc.table, lo, calc.turbine)
            vhi == ValueAt(calc.table, hi, calc.turbine)
        IN (lo \in Bins(calc.table) /\ hi \in Bins(calc.table)) =>
              calc.result =
                 IF lo = hi THEN vlo
                 ELSE FAdd(vlo, FMul(FSub(vhi, vlo), FSub(calc.wspd, FInt(lo))))

(***************************************************************************)
(* C13: for start <= end the schedule has (days from start to end          *)
(* inclusive) x 24 entries, one per hour, with pairwise distinct keys,     *)
(* ordered by day and then by hour 00..23, strictly increasing in time.    *)
(***************************************************************************)
KeyBefore(a, b) == a.ymd < b.ymd \/ (a.ymd = b.ymd /\ a.hhmm < b.hhmm)

C13_ScheduleHourByHour ==
    ValidRange =>
        /\ Len(files) = (end_date - start_date + 1) * 24
        /\ \A k \in 1..Len(files) :
              /\ files[k].ymd = strftime(start_date + (k - 1) \div 24)
              /\ files[k].hhmm = ((k - 1) % 24) * 100
        /\ Cardinality({files[k] : k \in 1..Len(files)}) = Len(files)
        /\ \A k \in 1..(Len(files) - 1) : KeyBefore(files[k], files[k + 1])

\* a schedule of two days, over the end of a month, requested to its end
C13_Witness ==
    /\ start_date = 0
    /\ end_date = 1
    /\ Len(files) = 48
    /\ files[24] = [ymd |-> 20160228, hhmm |-> 2300]
    /\ files[25] = [ymd |-> 20160229, hhmm |-> 0]
    /\ requests = files
    /\ pc = "done"

(***************************************************************************)
(* C14: once the map has its entries no step of the run changes it or      *)
(* builds it again, a run with sites builds it at most once, and a later   *)
(* successful fetch reads its winds at the indices of the map as it is,    *)
(* also from a snapshot whose grid points lie elsewhere.                   *)
(***************************************************************************)
C14_MapFrozenOnceBuilt ==
    [][ /\ (NSites > 0) => Len(built') <= 1
        /\ (target2grid # EmptyMap) =>
              /\ target2grid' = target2grid
              /\ built' = built
              /\ (pc = "response" /\ WellFormed(request) /\ pc' = "loop") =>
                    \A j \in 1..NSites :
                       LET at == target2grid[wind_farm[j].id] + 1
                           row == data'[Len(data) + j]
                       IN /\ row.plantID = wind_farm[j].id
                          /\ row.U = request.content[var_u][at]
                          /\ row.V = request.content[var_v][at]
      ]_vars

\* the map built from one snapshot has served a later snapshot whose grid
\* points are in another order
C14_Witness ==
    /\ NSites = 2
    /\ Handled >= 2
    /\ responses[1] = Response(StatusOK, Snapshot0)
    /\ responses[2] = Response(StatusOK, Snapshot1)
    /\ built = <<0>>
    /\ target2grid = BuildTarget2Grid(wind_farm, Snapshot0["lon"], Snapshot0["lat"])
    /\ target2grid # BuildTarget2Grid(wind_farm, Snapshot1["lon"], Snapshot1["lat"])
    /\ Len(data) >= 4

(***************************************************************************)
(* C15: the requests issued so far are the first entries of the schedule   *)
(* in its order, each once; a request is in flight only when the rows of   *)
(* every earlier hour, one per site, are in the table; a run that returns  *)
(* has issued the whole schedule; and until the table is sorted its rows   *)
(* are hour by hour and, within an hour, in the input order of the sites.  *)
(***************************************************************************)
C15_OneHourAtATime ==
    /\ Len(requests) <= Len(files)
    /\ requests = SubSeq(files, 1, Len(requests))
    /\ Len(requests) = IF pc \in {"response", "aborted"} THEN i + 1 ELSE i
    /\ (pc = "done") => requests = files
    /\ Len(data) = NSites * i
    /\ (pc \in {"loop", "response"}) =>
          \A h \in 1..i, j \in 1..NSites :
             /\ data[(h - 1) * NSites + j].tsID = h
             /\ data[(h - 1) * NSites + j].plantID = wind_farm[j].id

\* the third request is in flight after a fetched and a failed hour, the
\* four rows of the two hours in the table, sites not in the order of their ids
C15_Witness ==
    /\ pc = "response"
    /\ i = 2
    /\ wind_farm = <<SiteA, SiteB>>
    /\ WellFormed(responses[1])
    /\ Failed(responses[2])
    /\ Len(requests) = 3
    /\ Len(data) = 4
    /\ ~IsNanRow(data[1])
    /\ IsNanRow(data[4])

(***************************************************************************)
(* C16: in the returned table every site has the timestamp indices         *)
(* 1..N of a schedule of N requests, failed hours included, and no row     *)
(* has another; a row of index k has the timestamp start_date 00:00 plus   *)
(* k - 1 hours, whose calendar date and hour are those of the k-th key.    *)
(***************************************************************************)
C16_IndexAndTimestampFollowSchedule ==
    pc = "done" =>
        /\ \A j \in 1..NSites :
              {data[r].tsID : r \in {q \in 1..Len(data) :
                                        data[q].plantID = wind_farm[j].id}}
                 = 1..Len(files)
        /\ \A r \in 1..Len(data) :
              LET k == data[r].tsID
              IN /\ k \in 1..Len(files)
                 /\ data[r].ts = start_date * 24 + (k - 1)
                 /\ strftime(data[r].ts \div 24) = files[k].ymd
                 /\ (data[r].ts % 24) * 100 = files[k].hhmm

\* a returned table of two days with failed hours: row 25 of the one site
\* is the first hour of 29 February
C16_Witness ==
    /\ pc = "done"
    /\ NSites = 1
    /\ start_date = 0
    /\ end_date = 1
    /\ Cardinality(FailedHours) >= 1
    /\ Len(data) = 48
    /\ data[25].tsID = 25
    /\ data[25].ts = 24
    /\ files[25] = [ymd |-> 20160229, hhmm |-> 0]
    /\ ~IsNanRow(data[25])

(***************************************************************************)
(* C17: for every hour whose fetch succeeded and whose rows are in the     *)
(* table, and every site, the row of that site and hour has the U and V of *)
(* that hour's own snapshot at the index the map gives the site, and its   *)
(* power is get_power of the speed sqrt(U^2 + V^2) for the fixed turbine   *)
(* class times the capacity of that site.                                  *)
(***************************************************************************)
C17_RowFromOwnSnapshotAndSite ==
    \A r \in 1..Len(data), j \in 1..NSites :
        (/\ data[r].plantID = wind_farm[j].id
         /\ responses[data[r].tsID].status_code = StatusOK)
        => LET site == wind_farm[j]
               at == target2grid[site.id] + 1
               U == responses[data[r].tsID].content[var_u][at]
               V == responses[data[r].tsID].content[var_v][at]
               wspd == FSqrt(FAdd(FMul(U, U), FMul(V, V)))
           IN /\ data[r].U = U
              /\ data[r].V = V
              /\ data[r].Pout =
                    FMul(get_power(wspd, IECClass2), FInt(site.GenMWMax))

\* a returned table of two sites of different capacity, the second hour
\* from another snapshot than the first: 7/2 m/s at the 100 MW site gives
\* 50 MW, 3 m/s at the 50 MW site gives 15 MW
C17_Witness ==
    /\ pc = "done"
    /\ wind_farm = <<SiteA, SiteB>>
    /\ Len(responses) >= 2
    /\ responses[1] = Response(StatusOK, Snapshot0)
    /\ responses[2] = Response(StatusOK, Snapshot1)
    /\ \E r \in 1..Len(data) :
          /\ data[r].plantID = SiteA.id
          /\ data[r].tsID = 2
          /\ data[r].U = FInt(0)
          /\ data[r].V = Frac(7, 2)
          /\ data[r].Pout = FInt(50)
    /\ \E r \in 1..Len(data) :
          /\ data[r].plantID = SiteB.id
          /\ data[r].tsID = 2
          /\ data[r].Pout = FInt(15)

(***************************************************************************)
(* The build of the map alone (lines 152-157): one build for a set of      *)
(* sites and the grid points of one snapshot.                              *)
(***************************************************************************)
GridPoints == {<<lon, lat>> : lon \in {0, 90, 180, 270}, lat \in {-90, 0, 90}}
Grids == UNION {[1..n -> GridPoints] : n \in 1..MaxGrid}
MapFarms ==
    {<<Site(7, lon, lat, 10)>> : lon \in {0, 90}, lat \in {0, 90}}
        \cup {<<SiteA, SiteB>>}

InitMap ==
    /\ Start(<<>>, 1, 0, [faulty |-> {}, steady |-> "up"])
    /\ pace = NoPace
    /\ \E wf \in MapFarms, grid \in Grids :
          calc = [fn |-> "target2grid", wf |-> wf,
                  lon_grid |-> [k \in 1..Len(grid) |-> grid[k][1]],
                  lat_grid |-> [k \in 1..Len(grid) |-> grid[k][2]],
                  result |-> EmptyMap, pc |-> "call"]

MapCall ==
    /\ calc.pc = "call"
    /\ calc.fn = "target2grid"
    /\ calc' = [calc EXCEPT
                  !.result = BuildTarget2Grid(calc.wf, calc.lon_grid, calc.lat_grid),
                  !.pc = "returned"]
    /\ UNCHANGED <<wind_farm, start_date, end_date, source, files, i, dt, data,
                   missing, target2grid, request, pc, err, requests, responses,
                   pauses, built, pace>>

SpecMap == InitMap /\ [][MapCall]_vars

MapReturned == calc.fn = "target2grid" /\ calc.pc = "returned"
\* the angular distance from a site to the grid point of 0-based index k
DistanceTo(site, k) ==
    angular_distance(ll2uv(site.lon, site.lat),
                     ll2uv(calc.lon_grid[k + 1], calc.lat_grid[k + 1]))

(***************************************************************************)
(* C18: the map gives every site the index of a grid point at minimal      *)
(* angular distance from it, the lowest index among the grid points at     *)
(* that distance, and the same inputs give the same map.                   *)
(***************************************************************************)
C18_NearestLowestIndex ==
    MapReturned =>
        /\ DOMAIN calc.result = {calc.wf[j].id : j \in 1..Len(calc.wf)}
        /\ \A j \in 1..Len(calc.wf) :
              LET site == calc.wf[j]
                  at == calc.result[site.id]
              IN /\ at \in 0..(Len(calc.lon_grid) - 1)
                 /\ \A k \in 0..(Len(calc.lon_grid) - 1) :
                       DistanceTo(site, at) <= DistanceTo(site, k)
                 /\ \A k \in 0..(at - 1) :
                       DistanceTo(site, k) > DistanceTo(site, at)
        /\ calc.result = BuildTarget2Grid(calc.wf, calc.lon_grid, calc.lat_grid)

\* three grid points, the last two at the same least distance from the site,
\* one of them the pole under another longitude: the map has the first of them
C18_Witness ==
    /\ MapReturned
    /\ calc.wf = <<Site(7, 0, 90, 10)>>
    /\ calc.lon_grid = <<0, 90, 180>>
    /\ calc.lat_grid = <<0, 90, 90>>
    /\ calc.result[7] = 1

====
